---- MODULE Spec2Model ----
(***************************************************************************)
(* Model of the bento-cbor processor (package cbor): NewProcessor,         *)
(* CBORProcessor.Process / Close, the to_json and from_json operators and  *)
(* the key-normalisation helper convertToStringKeyMap.                     *)
(*                                                                         *)
(* Payloads are sequences of bytes (0..255).  Go values of type `any` are  *)
(* tagged records, one tag per dynamic Go type the code can meet:          *)
(*   nil, bool, float64 (integer-valued, or NaN), uint64, int64, string,   *)
(*   []any, map[any]any, map[string]any.                                   *)
(* A Go map is a TLA+ function; Go's unspecified map iteration order is a  *)
(* nondeterministic choice among all orders of the key set.                *)
(***************************************************************************)
EXTENDS Integers, Sequences, FiniteSets, TLC

VARIABLES
    procs,   \* processor slot -> CBORProcessor built by NewProcessor (or none yet)
    msgs,    \* message -> the service.Message held by the host: its payload
    calls,   \* message -> the Process call running on it: position and locals
    rets,    \* message -> what the last Process call on it returned, and its history
    data,    \* the value tree handed to convertToStringKeyMap (helper specification)
    runs     \* run -> what that run of convertToStringKeyMap on `data` returned

vars == <<procs, msgs, calls, rets, data, runs>>

----------------------------------------------------------------------------
(* Bounds of the model.                                                    *)

\* longest []any generated as an input, and most entries of a generated map
MaxLen == 2
\* containers nested inside one another in the generated value trees
MaxDepth == 2
\* deepest chain of single-element containers in the generated JSON documents
MaxWrap == 33
\* Process calls made, one after another, on one message
MaxHops == 2

----------------------------------------------------------------------------
(* Go values.                                                              *)

Nil == [t |-> "nil"]
Bool(b) == [t |-> "bool", b |-> b]
Float64(n) == [t |-> "float64", f |-> n]
NaN == [t |-> "float64NaN"]
Uint64(n) == [t |-> "uint64", u |-> n]
Int64(n) == [t |-> "int64", i |-> n]
String(s) == [t |-> "string", s |-> s]
Slice(a) == [t |-> "[]any", a |-> a]
MapAny(m) == [t |-> "map[any]any", m |-> m]
MapString(m) == [t |-> "map[string]any", sm |-> m]

\* the empty Go map, of either type: a function with the empty domain
EmptyMap == [k \in {} |-> Nil]

\* m[k] = v on a Go map
MapPut(m, k, v) == [x \in (DOMAIN m) \cup {k} |-> IF x = k THEN v ELSE m[x]]

\* every order in which `for k := range m` can visit the keys S of a Go map
RangeOrders(S) ==
    {p \in [1..Cardinality(S) -> S] : \A i, j \in 1..Cardinality(S) : p[i] = p[j] => i = j}

Min(a, b) == IF a < b THEN a ELSE b

----------------------------------------------------------------------------
(* Text: strings are sequences of bytes.                                   *)

RECURSIVE FormatUint(_)
\* strconv decimal form of a non-negative integer
FormatUint(n) == IF n < 10 THEN <<48 + n>> ELSE FormatUint(n \div 10) \o <<48 + (n % 10)>>

\* decimal form of an integer, as fmt's %v and encoding/json both print it
FormatInt(n) == IF n < 0 THEN <<45>> \o FormatUint(0 - n) ELSE FormatUint(n)

\* fmt.Sprintf("%v", k) for the dynamic types a decoded CBOR map key can have
Sprintf(k) ==
    CASE k.t = "string" -> k.s
      [] k.t = "uint64" -> FormatInt(k.u)
      [] k.t = "int64" -> FormatInt(k.i)
      [] k.t = "float64" -> FormatInt(k.f)
      [] k.t = "bool" -> IF k.b THEN <<116, 114, 117, 101>> ELSE <<102, 97, 108, 115, 101>>
      [] k.t = "nil" -> <<60, 110, 105, 108, 62>>
      [] k.t = "float64NaN" -> <<78, 97, 78>>

----------------------------------------------------------------------------
(* convertToStringKeyMap.  The operator yields the set of values one call  *)
(* can return: a call on a map ranges over the map in an unspecified order.*)

RECURSIVE convertToStringKeyMap(_), rangeAssign(_, _, _, _), sliceAssign(_, _)
RECURSIVE rangeAssignShortKey(_, _, _, _), sliceAssignMirror(_, _)

\* rangeAssign that keeps the first letter only of the key text
rangeAssignShortKey(x, order, i, m) ==
    IF i > Len(order) THEN {m}
    ELSE LET k == order[i]
             keyStr == IF x.t = "map[any]any" THEN SubSeq(Sprintf(k), 1, 1) ELSE k
             v == IF x.t = "map[any]any" THEN x.m[k] ELSE x.sm[k]
         IN  UNION {rangeAssignShortKey(x, order, i + 1, MapPut(m, keyStr, r)) :
                        r \in convertToStringKeyMap(v)}

\* the loop body of both map cases, from position i of the visiting order:
\*   for k, v := range x { m[keyStr] = convertToStringKeyMap(v) }
\* with keyStr = fmt.Sprintf("%v", k) for map[any]any and keyStr = k for map[string]any
rangeAssign(x, order, i, m) ==
    IF i > Len(order) THEN {m}
    ELSE LET k == order[i]
             keyStr == IF x.t = "map[any]any" THEN Sprintf(k) ELSE k
             v == IF x.t = "map[any]any" THEN x.m[k] ELSE x.sm[k]
         IN  UNION {rangeAssign(x, order, i + 1, MapPut(m, keyStr, r)) :
                        r \in convertToStringKeyMap(v)}

\* sliceAssign that leaves the elements as they are
sliceAssignNone(a, i) == {a}

\* sliceAssign that writes each converted element at the mirrored index
sliceAssignMirror(a, i) ==
    IF i > Len(a) THEN {a}
    ELSE UNION {sliceAssignMirror([a EXCEPT ![Len(a) + 1 - i] = r], i + 1) :
                    r \in convertToStringKeyMap(a[i])}

\* the loop of the []any case, from index i: for i, v := range x { x[i] = convertToStringKeyMap(v) }
sliceAssign(a, i) ==
    IF i > Len(a) THEN {a}
    ELSE UNION {sliceAssign([a EXCEPT ![i] = r], i + 1) : r \in convertToStringKeyMap(a[i])}

convertToStringKeyMap(x) ==
    CASE x.t = "map[any]any" ->
             {MapString(m) : m \in UNION {rangeAssign(x, o, 1, EmptyMap) :
                                              o \in RangeOrders(DOMAIN x.m)}}
      [] x.t = "map[string]any" ->
             {MapString(m) : m \in UNION {rangeAssign(x, o, 1, EmptyMap) :
                                              o \in RangeOrders(DOMAIN x.sm)}}
      [] x.t = "[]any" -> {Slice(a) : a \in sliceAssign(x.a, 1)}
      [] OTHER -> {x}

----------------------------------------------------------------------------
(* The value trees the helper is run on: scalars, sequences and mappings   *)
(* of both Go map types, nested up to MaxDepth, sequences and maps holding *)
(* up to MaxLen entries.  One entry of a container holds the nested tree,  *)
(* the others hold Filler.  MapKeys has two keys with the same text form   *)
(* (integer 1 and text "1") and one with another (integer -2).             *)

Filler == Uint64(7)
Scalars == {String(<<97>>)}
MapKeys == {Uint64(1), String(<<49>>), Int64(0 - 2)}
StringKeys == {<<49>>, <<97>>}

SlicesAround(x) ==
    UNION {{Slice([i \in 1..n |-> IF i = p THEN x ELSE Filler]) : p \in 1..n} : n \in 1..MaxLen}

KeySets(keys) == {K \in SUBSET keys : K # {} /\ Cardinality(K) <= MaxLen}

MapsAnyAround(x) ==
    UNION {{MapAny([k \in K |-> IF k = at THEN x ELSE Filler]) : at \in K} : K \in KeySets(MapKeys)}

MapsStringAround(x) ==
    UNION {{MapString([k \in K |-> IF k = at THEN x ELSE Filler]) : at \in K} :
               K \in KeySets(StringKeys)}

RECURSIVE Trees(_)
Trees(d) ==
    IF d = 0 THEN Scalars \cup {Slice(<<>>), MapAny(EmptyMap)}
    ELSE Trees(0) \cup UNION {SlicesAround(x) \cup MapsAnyAround(x) \cup MapsStringAround(x) :
                                  x \in Trees(d - 1)}

----------------------------------------------------------------------------
(* Helper specification: convertToStringKeyMap run twice, one run after    *)
(* the other, on equal trees.  Each run has its own copy of the tree, as   *)
(* each Process call decodes its own (the []any case overwrites the        *)
(* elements of the slice it is given).                                     *)

Runs == {"first", "second"}
NotRun == [done |-> FALSE, ret |-> Nil]

InitConvert ==
    /\ data \in Trees(MaxDepth)
    /\ runs = [r \in Runs |-> NotRun]
    /\ procs = EmptyMap
    /\ msgs = EmptyMap
    /\ calls = EmptyMap
    /\ rets = EmptyMap

Convert(r) ==
    /\ ~runs[r].done
    /\ r = "second" => runs["first"].done
    /\ \E ret \in convertToStringKeyMap(data) :
           runs' = [runs EXCEPT ![r] = [done |-> TRUE, ret |-> ret]]
    /\ UNCHANGED <<procs, msgs, calls, rets, data>>

NextConvert == \E r \in Runs : Convert(r)

SpecConvert == InitConvert /\ [][NextConvert]_vars

----------------------------------------------------------------------------
(* encoding/json, as the two operators use it.  Texts of the model hold    *)
(* integers without fraction or exponent and strings without escapes; a    *)
(* text outside that subset is reported as Unmodelled and never arises.    *)

\* bytes.Compare(a, b) < 0
RECURSIVE BytesLess(_, _)
BytesLess(a, b) ==
    IF a = <<>> THEN b # <<>>
    ELSE IF b = <<>> THEN FALSE
    ELSE IF a[1] # b[1] THEN a[1] < b[1]
    ELSE BytesLess(Tail(a), Tail(b))

\* the keys of a map[string]any in the order json.Marshal writes them (sorted)
RECURSIVE SortedKeys(_)
SortedKeys(S) ==
    IF S = {} THEN <<>>
    ELSE LET lo == CHOOSE k \in S : \A o \in S \ {k} : BytesLess(k, o)
         IN  <<lo>> \o SortedKeys(S \ {lo})

Quote(s) == <<34>> \o s \o <<34>>

MarshalFail == [ok |-> FALSE, out |-> <<>>]
MarshalOk(bytes) == [ok |-> TRUE, out |-> bytes]

RECURSIVE jsonMarshal(_), jsonMarshalElems(_, _), jsonMarshalMembers(_, _, _)

\* the elements of a []any from index i on, comma-separated
jsonMarshalElems(a, i) ==
    LET e == jsonMarshal(a[i])
    IN  IF ~e.ok THEN MarshalFail
        ELSE IF i = Len(a) THEN e
        ELSE LET rest == jsonMarshalElems(a, i + 1)
             IN  IF rest.ok THEN MarshalOk(e.out \o <<44>> \o rest.out) ELSE MarshalFail

\* the members of a map[string]any from position i of its sorted keys on
jsonMarshalMembers(m, keys, i) ==
    LET e == jsonMarshal(m[keys[i]])
        member == Quote(keys[i]) \o <<58>> \o e.out
    IN  IF ~e.ok THEN MarshalFail
        ELSE IF i = Len(keys) THEN MarshalOk(member)
        ELSE LET rest == jsonMarshalMembers(m, keys, i + 1)
             IN  IF rest.ok THEN MarshalOk(member \o <<44>> \o rest.out) ELSE MarshalFail

\* json.Marshal(v): the text, or an error for a value JSON cannot hold
\* (NaN: UnsupportedValueError; map[interface{}]interface{}: UnsupportedTypeError)
jsonMarshal(v) ==
    CASE v.t = "nil" -> MarshalOk(<<110, 117, 108, 108>>)
      [] v.t = "bool" -> MarshalOk(IF v.b THEN <<116, 114, 117, 101>>
                                   ELSE <<102, 97, 108, 115, 101>>)
      [] v.t = "float64" -> MarshalOk(FormatInt(v.f))
      [] v.t = "uint64" -> MarshalOk(FormatInt(v.u))
      [] v.t = "int64" -> MarshalOk(FormatInt(v.i))
      [] v.t = "string" -> MarshalOk(Quote(v.s))
      [] v.t = "[]any" ->
             IF v.a = <<>> THEN MarshalOk(<<91, 93>>)
             ELSE LET es == jsonMarshalElems(v.a, 1)
                  IN  IF es.ok THEN MarshalOk(<<91>> \o es.out \o <<93>>) ELSE MarshalFail
      [] v.t = "map[string]any" ->
             IF DOMAIN v.sm = {} THEN MarshalOk(<<123, 125>>)
             ELSE LET ms == jsonMarshalMembers(v.sm, SortedKeys(DOMAIN v.sm), 1)
                  IN  IF ms.ok THEN MarshalOk(<<123>> \o ms.out \o <<125>>) ELSE MarshalFail
      [] OTHER -> MarshalFail

IsSpace(b) == b \in {32, 9, 10, 13}
IsDigit(b) == b >= 48 /\ b <= 57

RECURSIVE skipSpace(_, _)
skipSpace(s, i) == IF i <= Len(s) /\ IsSpace(s[i]) THEN skipSpace(s, i + 1) ELSE i

HasAt(s, i, lit) == i + Len(lit) - 1 <= Len(s) /\ SubSeq(s, i, i + Len(lit) - 1) = lit

\* index of the quote closing the string literal whose first character is at i,
\* 0 when the literal is not closed or holds a control character
RECURSIVE scanString(_, _)
scanString(s, i) ==
    IF i > Len(s) THEN 0
    ELSE IF s[i] = 34 THEN i
    ELSE IF s[i] < 32 THEN 0
    ELSE scanString(s, i + 1)

\* first index after the digits starting at i
RECURSIVE scanDigits(_, _)
scanDigits(s, i) == IF i <= Len(s) /\ IsDigit(s[i]) THEN scanDigits(s, i + 1) ELSE i

\* strconv value of the digits s[i..j]
RECURSIVE ParseUint(_, _, _)
ParseUint(s, i, j) == IF j < i THEN 0 ELSE 10 * ParseUint(s, i, j - 1) + (s[j] - 48)

Unmodelled == [t |-> "unmodelled"]
ParseFail == [ok |-> FALSE, v |-> Nil, i |-> 0]
ParseUnmodelled == [ok |-> FALSE, v |-> Unmodelled, i |-> 0]
ParseOk(v, i) == [ok |-> TRUE, v |-> v, i |-> i]

\* a number literal at i: -? (0 | [1-9][0-9]*), decoded into a float64
parseNumber(s, i) ==
    LET d == IF s[i] = 45 THEN i + 1 ELSE i
        e == IF d <= Len(s) /\ s[d] = 48 THEN d + 1 ELSE scanDigits(s, d)
    IN  IF e = d THEN ParseFail
        ELSE IF e <= Len(s) /\ s[e] \in {46, 69, 101} THEN ParseUnmodelled
        ELSE ParseOk(Float64(IF d = i THEN ParseUint(s, d, e - 1)
                                      ELSE 0 - ParseUint(s, d, e - 1)), e)

\* a literal, a string or a number at i, decoded as json.Unmarshal decodes into `any`
parseScalar(s, i) ==
    CASE s[i] = 110 ->
             IF HasAt(s, i, <<110, 117, 108, 108>>) THEN ParseOk(Nil, i + 4) ELSE ParseFail
      [] s[i] = 116 ->
             IF HasAt(s, i, <<116, 114, 117, 101>>) THEN ParseOk(Bool(TRUE), i + 4)
             ELSE ParseFail
      [] s[i] = 102 ->
             IF HasAt(s, i, <<102, 97, 108, 115, 101>>) THEN ParseOk(Bool(FALSE), i + 5)
             ELSE ParseFail
      [] s[i] = 34 ->
             LET q == scanString(s, i + 1)
             IN  IF q = 0 THEN ParseFail
                 ELSE IF \E x \in i + 1..q - 1 : s[x] = 92 \/ s[x] >= 128 THEN ParseUnmodelled
                 ELSE ParseOk(String(SubSeq(s, i + 1, q - 1)), q + 1)
      [] s[i] = 45 \/ IsDigit(s[i]) -> parseNumber(s, i)
      [] OTHER -> ParseFail

\* The decoder between two tokens: the read offset i, what it expects there,
\* and one frame for each array or object it is inside, the innermost first.
\* A frame holds the elements, or the members and the pending key, read so far.
ScanStart == [pc |-> "run", expect |-> "value", i |-> 1, stack |-> <<>>, v |-> Nil]
ScanFrame(t) == [t |-> t, acc |-> <<>>, m |-> EmptyMap, key |-> <<>>]

\* the value v ends before j: it is the document, or it goes into the innermost frame
\* (a repeated key overwrites the entry, as assignment into the Go map does)
scanDeliver(st, v, j) ==
    IF st.stack = <<>> THEN [st EXCEPT !.pc = "ok", !.v = v, !.i = j]
    ELSE LET top == Head(st.stack)
             filled == IF top.t = "array" THEN [top EXCEPT !.acc = Append(@, v)]
                       ELSE [top EXCEPT !.m = MapPut(@, top.key, v)]
         IN  [st EXCEPT !.stack = <<filled>> \o Tail(st.stack), !.expect = "more", !.i = j]

\* a value starts at j
scanValue(s, st, j) ==
    CASE s[j] = 91 ->
             [st EXCEPT !.stack = <<ScanFrame("array")>> \o @, !.expect = "valueOrEnd",
                        !.i = j + 1]
      [] s[j] = 123 ->
             [st EXCEPT !.stack = <<ScanFrame("object")>> \o @, !.expect = "keyOrEnd",
                        !.i = j + 1]
      [] OTHER ->
             LET r == parseScalar(s, j)
             IN  IF r.ok THEN scanDeliver(st, r.v, r.i)
                 ELSE [st EXCEPT !.pc = IF r.v = Unmodelled THEN "unmodelled" ELSE "fail"]

\* a member starts at j: its key and the colon
scanKey(s, st, j) ==
    LET q == IF s[j] = 34 THEN scanString(s, j + 1) ELSE 0
        c == skipSpace(s, q + 1)
        top == Head(st.stack)
    IN  IF q = 0 THEN [st EXCEPT !.pc = "fail"]
        ELSE IF \E x \in j + 1..q - 1 : s[x] = 92 \/ s[x] >= 128
             THEN [st EXCEPT !.pc = "unmodelled"]
        ELSE IF c > Len(s) \/ s[c] # 58 THEN [st EXCEPT !.pc = "fail"]
        ELSE [st EXCEPT !.stack = <<[top EXCEPT !.key = SubSeq(s, j + 1, q - 1)]>>
                                      \o Tail(st.stack),
                        !.expect = "value", !.i = c + 1]

\* a comma or the end of the innermost array or object is at j
scanMore(s, st, j) ==
    LET top == Head(st.stack)
        up == [st EXCEPT !.stack = Tail(@)]
    IN  CASE s[j] = 44 /\ top.t = "array" /\ st.expect = "more" ->
                 [st EXCEPT !.expect = "value", !.i = j + 1]
          [] s[j] = 44 /\ top.t = "object" /\ st.expect = "more" ->
                 [st EXCEPT !.expect = "key", !.i = j + 1]
          [] s[j] = 93 /\ top.t = "array" -> scanDeliver(up, Slice(top.acc), j + 1)
          [] s[j] = 125 /\ top.t = "object" -> scanDeliver(up, MapString(top.m), j + 1)
          [] OTHER -> [st EXCEPT !.pc = "fail"]

\* the decoder reads the next token
scanStep(s, st) ==
    LET j == skipSpace(s, st.i)
    IN  CASE st.pc # "run" -> st
          [] j > Len(s) -> [st EXCEPT !.pc = "fail"]
          [] st.expect = "value" -> scanValue(s, st, j)
          [] st.expect = "valueOrEnd" ->
                 IF s[j] = 93 THEN scanMore(s, st, j) ELSE scanValue(s, st, j)
          [] st.expect = "key" -> scanKey(s, st, j)
          [] st.expect = "keyOrEnd" ->
                 IF s[j] = 125 THEN scanMore(s, st, j) ELSE scanKey(s, st, j)
          [] OTHER -> scanMore(s, st, j)

\* up to n tokens read from state st on, until the decoder stops
RECURSIVE scanRun(_, _, _)
scanRun(s, st, n) ==
    IF n <= 1 THEN scanStep(s, st)
    ELSE LET mid == scanRun(s, st, n \div 2)
         IN  IF mid.pc # "run" THEN mid ELSE scanRun(s, mid, n - n \div 2)

\* json.Unmarshal(bytesContent, &jsonData): one value, then only white space.
\* Every token holds a byte at least, so Len(s) + 1 steps read the whole text.
jsonUnmarshal(s) ==
    LET st == scanRun(s, ScanStart, Len(s) + 1)
    IN  CASE st.pc = "ok" /\ skipSpace(s, st.i) > Len(s) -> ParseOk(st.v, st.i)
          [] st.pc = "unmodelled" -> ParseUnmodelled
          [] OTHER -> ParseFail

----------------------------------------------------------------------------
(* github.com/fxamacker/cbor/v2, as the two operators use it.  The model   *)
(* covers unsigned and negative integers, text strings, arrays, maps,      *)
(* false, true, null, undefined and half-precision floats that are whole   *)
(* numbers or NaN; an item outside that subset (byte strings, tags,        *)
(* indefinite lengths, other floats and simple values) is reported as      *)
(* Unmodelled and never arises.                                            *)

\* an argument read from 4 or 8 bytes is capped here: larger than any payload of the model
Huge == 1000000

RECURSIVE Pow2(_)
Pow2(n) == IF n = 0 THEN 1 ELSE 2 * Pow2(n - 1)

RECURSIVE Log2(_)
Log2(a) == IF a < 2 THEN 0 ELSE 1 + Log2(a \div 2)

Abs(n) == IF n < 0 THEN 0 - n ELSE n

\* the head of a data item: major type and argument n, in the shortest form
EncodeHead(major, n) ==
    IF n < 24 THEN <<major * 32 + n>>
    ELSE IF n < 256 THEN <<major * 32 + 24, n>>
    ELSE <<major * 32 + 25, n \div 256, n % 256>>

\* a whole number has a half-precision form when its significand fits 11 bits
Float16Exact(n) ==
    \/ n = 0
    \/ /\ Log2(Abs(n)) <= 15
       /\ ((Abs(n) - Pow2(Log2(Abs(n)))) * 1024) % Pow2(Log2(Abs(n))) = 0

\* the 16 bits of the half-precision float equal to the whole number n
Float16Bits(n) ==
    IF n = 0 THEN 0
    ELSE LET a == Abs(n)
             e == Log2(a)
         IN  (IF n < 0 THEN 32768 ELSE 0) + (e + 15) * 1024 + ((a - Pow2(e)) * 1024) \div Pow2(e)

\* the value of the half-precision float with these 16 bits
Float16Value(bits) ==
    LET exp == (bits \div 1024) % 32
        frac == bits % 1024
        neg == bits >= 32768
        mag == IF exp >= 25 THEN (1024 + frac) * Pow2(exp - 25)
               ELSE (1024 + frac) \div Pow2(25 - exp)
    IN  IF exp = 31 THEN (IF frac = 0 THEN Unmodelled ELSE NaN)
        ELSE IF exp = 0 THEN (IF frac = 0 /\ ~neg THEN Float64(0) ELSE Unmodelled)
        ELSE IF exp < 25 /\ (1024 + frac) % Pow2(25 - exp) # 0 THEN Unmodelled
        ELSE Float64(IF neg THEN 0 - mag ELSE mag)

\* the keys and values of map v in the order its keys are visited: key, value, key, ...
PairsInOrder(v, order) ==
    [j \in 1..2 * Len(order) |->
        LET k == order[(j + 1) \div 2]
        IN  IF j % 2 = 1 THEN (IF v.t = "map[any]any" THEN k ELSE String(k))
            ELSE (IF v.t = "map[any]any" THEN v.m[k] ELSE v.sm[k])]

\* the orders in which the encoder writes the entries of a map with keys S:
\* with Sort none it ranges over the Go map
EncodeOrders(em, S) == IF em.Sort = "none" THEN RangeOrders(S) ELSE {}

\* The encoder between two data items: the bytes written and the values still
\* to write, the next one first.  It writes the head of the next value and puts
\* the elements of an array, or the keys and values of a map, before the rest.
encodeStep(em, st) ==
    IF st.todo = <<>> THEN {st}
    ELSE LET v == Head(st.todo)
             emit(bytes, inner) == [out |-> st.out \o bytes, todo |-> inner \o Tail(st.todo)]
         IN  CASE v.t = "nil" -> {emit(<<246>>, <<>>)}
               [] v.t = "bool" -> {emit(IF v.b THEN <<245>> ELSE <<244>>, <<>>)}
               [] v.t = "float64" ->
                      IF em.ShortestFloat = "float16" /\ Float16Exact(v.f)
                      THEN {emit(<<249, Float16Bits(v.f) \div 256, Float16Bits(v.f) % 256>>,
                                 <<>>)}
                      ELSE {}
               [] v.t = "float64NaN" ->
                      IF em.NaNConvert = "7e00" THEN {emit(<<249, 126, 0>>, <<>>)} ELSE {}
               [] v.t = "uint64" -> {emit(EncodeHead(0, v.u), <<>>)}
               [] v.t = "int64" ->
                      {emit(IF v.i < 0 THEN EncodeHead(1, 0 - 1 - v.i) ELSE EncodeHead(0, v.i),
                            <<>>)}
               [] v.t = "string" -> {emit(EncodeHead(3, Len(v.s)) \o v.s, <<>>)}
               [] v.t = "[]any" -> {emit(EncodeHead(4, Len(v.a)), v.a)}
               [] v.t = "map[any]any" ->
                      {emit(EncodeHead(5, Cardinality(DOMAIN v.m)), PairsInOrder(v, o)) :
                           o \in EncodeOrders(em, DOMAIN v.m)}
               [] v.t = "map[string]any" ->
                      {emit(EncodeHead(5, Cardinality(DOMAIN v.sm)), PairsInOrder(v, o)) :
                           o \in EncodeOrders(em, DOMAIN v.sm)}

\* up to n heads written from each state of S on
RECURSIVE encodeRun(_, _, _)
encodeRun(em, S, n) ==
    IF n <= 1 THEN UNION {encodeStep(em, st) : st \in S}
    ELSE LET mid == encodeRun(em, S, n \div 2)
         IN  IF \A st \in mid : st.todo = <<>> THEN mid
             ELSE encodeRun(em, mid, n - n \div 2)

\* the encoder run from each state of S until nothing is left to write
RECURSIVE encodeAll(_, _, _)
encodeAll(em, S, n) ==
    IF \A st \in S : st.todo = <<>> THEN S ELSE encodeAll(em, encodeRun(em, S, n), 2 * n)

\* encMode.Marshal(v): the byte strings one call can return
cborMarshal(em, v) == {st.out : st \in encodeAll(em, {[out |-> <<>>, todo |-> <<v>>]}, 1)}

\* big-endian value of the n bytes after position i, capped at Huge
RECURSIVE ReadUint(_, _, _)
ReadUint(s, i, n) == IF n = 0 THEN 0 ELSE Min(Huge, ReadUint(s, i, n - 1) * 256 + s[i + n])

\* the argument of the head at i: its value n, whether it was capped, and the index after the head
ReadArg(s, i) ==
    LET ai == s[i] % 32
        extra == CASE ai < 24 -> 0 [] ai = 24 -> 1 [] ai = 25 -> 2 [] ai = 26 -> 4 [] OTHER -> 8
    IN  IF i + extra > Len(s) THEN [ok |-> FALSE, n |-> 0, big |-> FALSE, i |-> 0]
        ELSE [ok |-> TRUE,
              n |-> IF ai < 24 THEN ai ELSE ReadUint(s, i, extra),
              big |-> extra > 2,
              i |-> i + extra + 1]

\* a Go value that cannot be a map key (cbor: invalid map key type)
Unhashable(v) == v.t \in {"[]any", "map[any]any", "map[string]any"}

\* The decoder between two data items: the read offset i and one frame for each
\* array or map it is inside, the innermost first.  A frame holds the number n
\* of items still to read (two for each pair of a map) and those read so far.
DecodeStart == [pc |-> "run", i |-> 1, stack |-> <<>>, v |-> Nil]
DecodeFrame(t, n) == [t |-> t, n |-> n, acc |-> <<>>, m |-> EmptyMap, key |-> Nil]

\* the item v ends before j: it is the decoded value, or it goes into the
\* innermost frame (a repeated key overwrites the entry: DupMapKeyQuiet)
decodeDeliver(st, v, j) ==
    IF st.stack = <<>> THEN [st EXCEPT !.pc = "ok", !.v = v, !.i = j]
    ELSE LET top == Head(st.stack)
             isKey == top.t = "map" /\ top.n % 2 = 0
             filled == CASE top.t = "array" -> [top EXCEPT !.acc = Append(@, v), !.n = @ - 1]
                         [] isKey -> [top EXCEPT !.key = v, !.n = @ - 1]
                         [] OTHER -> [top EXCEPT !.m = MapPut(@, top.key, v), !.n = @ - 1]
         IN  IF isKey /\ Unhashable(v) THEN [st EXCEPT !.pc = "fail"]
             ELSE [st EXCEPT !.stack = <<filled>> \o Tail(st.stack), !.i = j]

\* the data item whose head is at st.i, under decoding mode dm
decodeItem(dm, s, st) ==
    LET i == st.i
        major == s[i] \div 32
        ai == s[i] % 32
        h == ReadArg(s, i)
        fail == [st EXCEPT !.pc = "fail"]
        unmodelled == [st EXCEPT !.pc = "unmodelled"]
    IN  IF i > Len(s) THEN fail
        ELSE IF ai \in 28..30 THEN fail
        ELSE IF ai = 31 THEN (IF major \in 2..5 THEN unmodelled ELSE fail)
        ELSE IF ~h.ok THEN fail
        ELSE CASE major = 0 -> IF h.big THEN unmodelled ELSE decodeDeliver(st, Uint64(h.n), h.i)
               [] major = 1 -> IF h.big THEN unmodelled
                               ELSE decodeDeliver(st, Int64(0 - 1 - h.n), h.i)
               [] major = 2 -> IF h.i + h.n - 1 > Len(s) THEN fail ELSE unmodelled
               [] major = 3 ->
                      IF h.i + h.n - 1 > Len(s) THEN fail
                      ELSE IF \E x \in h.i..h.i + h.n - 1 : s[x] >= 128 THEN unmodelled
                      ELSE decodeDeliver(st, String(SubSeq(s, h.i, h.i + h.n - 1)), h.i + h.n)
               [] major = 4 ->
                      IF Len(st.stack) + 1 > dm.MaxNestedLevels THEN fail
                      ELSE [st EXCEPT !.stack = <<DecodeFrame("array", h.n)>> \o @, !.i = h.i]
               [] major = 5 ->
                      IF Len(st.stack) + 1 > dm.MaxNestedLevels THEN fail
                      ELSE [st EXCEPT !.stack = <<DecodeFrame("map", 2 * h.n)>> \o @, !.i = h.i]
               [] major = 6 -> unmodelled
               [] major = 7 ->
                      CASE ai = 20 -> decodeDeliver(st, Bool(FALSE), h.i)
                        [] ai = 21 -> decodeDeliver(st, Bool(TRUE), h.i)
                        [] ai \in {22, 23} -> decodeDeliver(st, Nil, h.i)
                        [] ai = 25 ->
                               IF Float16Value(h.n) = Unmodelled THEN unmodelled
                               ELSE decodeDeliver(st, Float16Value(h.n), h.i)
                        [] OTHER -> unmodelled

\* the decoder closes the innermost array or map when it is complete, and reads
\* the next data item otherwise
decodeStep(dm, s, st) ==
    CASE st.pc # "run" -> st
      [] st.stack # <<>> /\ Head(st.stack).n = 0 ->
             LET top == Head(st.stack)
             IN  decodeDeliver([st EXCEPT !.stack = Tail(@)],
                               IF top.t = "array" THEN Slice(top.acc) ELSE MapAny(top.m), st.i)
      [] OTHER -> decodeItem(dm, s, st)

\* up to n steps of the decoder from state st on, until it stops
RECURSIVE decodeRun(_, _, _, _)
decodeRun(dm, s, st, n) ==
    IF n <= 1 THEN decodeStep(dm, s, st)
    ELSE LET mid == decodeRun(dm, s, st, n \div 2)
         IN  IF mid.pc # "run" THEN mid ELSE decodeRun(dm, s, mid, n - n \div 2)

\* decoder.Decode(&decoded) on a decoder reading the payload: the first data
\* item of the stream; what follows it is left in the decoder, unread.  A step
\* reads a head or closes an array or map, so 2 * Len(s) + 1 steps read the item.
Decode(dm, s) ==
    LET st == decodeRun(dm, s, DecodeStart, 2 * Len(s) + 1)
    IN  CASE st.pc = "ok" -> ParseOk(st.v, st.i)
          [] st.pc = "unmodelled" -> ParseUnmodelled
          [] OTHER -> ParseFail

----------------------------------------------------------------------------
(* The processor.                                                          *)

\* the decoder's limit on nested arrays and maps, which the DecOptions of
\* NewProcessor leave at the library's default
DefaultMaxNestedLevels == 32

\* cbor.EncOptions(cbor.PreferredUnsortedEncOptions()).EncMode()
PreferredUnsortedEncMode == [Sort |-> "none", ShortestFloat |-> "float16", NaNConvert |-> "7e00"]

\* cbor.DecOptions{MapKeyByteString: cbor.MapKeyByteStringAllowed}.DecMode()
MapKeyByteStringDecMode ==
    [MapKeyByteString |-> "allowed", MaxNestedLevels |-> DefaultMaxNestedLevels]

NoEncMode == [Sort |-> "", ShortestFloat |-> "", NaNConvert |-> ""]
NoDecMode == [MapKeyByteString |-> "", MaxNestedLevels |-> 0]

\* a slot NewProcessor has not been called for
NoProcessor ==
    [state |-> "unbuilt", arg |-> "", operator |-> "nil", encMode |-> NoEncMode,
     decMode |-> NoDecMode, err |-> "nil"]

\* the operator strings a configuration can hand to NewProcessor
OperatorStrs == {"to_json", "from_json", "yaml"}

\* strToOperator that falls back to to_json for an unknown string
strToOperatorLenient(operatorStr) ==
    CASE operatorStr = "from_json" -> [operator |-> "from_json", err |-> "nil"]
      [] OTHER -> [operator |-> "to_json", err |-> "nil"]

\* strToOperator: the operator closure for the string, or an error
strToOperator(operatorStr) ==
    CASE operatorStr = "to_json" -> [operator |-> "to_json", err |-> "nil"]
      [] operatorStr = "from_json" -> [operator |-> "from_json", err |-> "nil"]
      [] OTHER -> [operator |-> "nil", err |-> "invalid operator type"]

\* NewProcessor(operatorStr), its result kept in slot p: (nil, err) or (p, nil)
NewProcessor(p, operatorStr) ==
    /\ procs[p].state = "unbuilt"
    /\ LET o == strToOperator(operatorStr)
       IN  procs' = [procs EXCEPT ![p] =
                        IF o.err # "nil"
                        THEN [NoProcessor EXCEPT !.state = "failed", !.arg = operatorStr,
                                                 !.err = o.err]
                        ELSE [state |-> "built", arg |-> operatorStr, operator |-> o.operator,
                              encMode |-> PreferredUnsortedEncMode,
                              decMode |-> MapKeyByteStringDecMode, err |-> "nil"]]
    /\ UNCHANGED <<msgs, calls, rets, data, runs>>

\* Close(ctx): returns nil
Close(p) ==
    /\ procs[p].state = "built"
    /\ UNCHANGED vars

IdleCall == [pc |-> "idle", proc |-> "", bytesContent |-> <<>>, value |-> Nil, out |-> <<>>]

NoReturn(payload) ==
    [ops |-> <<>>, errs |-> <<>>, batch |-> <<>>, before |-> payload, after |-> payload,
     orig |-> payload]

\* the operator returns err and Process returns (nil, err)
ReturnError(m, err) ==
    /\ calls' = [calls EXCEPT ![m] = IdleCall]
    /\ rets' = [rets EXCEPT ![m].ops = Append(@, procs[calls[m].proc].operator),
                            ![m].errs = Append(@, err),
                            ![m].batch = <<>>,
                            ![m].after = msgs[m].payload]
    /\ UNCHANGED msgs

\* Process(ctx, m) on processor p, up to the operator's msg.AsBytes()
Process(m, p) ==
    /\ calls[m].pc = "idle"
    /\ procs[p].state = "built"
    /\ Len(rets[m].ops) < MaxHops
    /\ calls' = [calls EXCEPT ![m] =
                    [pc |-> IF procs[p].operator = "to_json" THEN "Decode" ELSE "Unmarshal",
                     proc |-> p, bytesContent |-> msgs[m].payload, value |-> Nil, out |-> <<>>]]
    /\ rets' = [rets EXCEPT ![m].before = msgs[m].payload]
    /\ UNCHANGED <<procs, msgs, data, runs>>

\* to_json: decoder.Decode(&decoded) on cp.decMode.NewDecoder(bytes.NewReader(bytesContent))
ToJSONDecode(m) ==
    /\ calls[m].pc = "Decode"
    /\ LET d == Decode(procs[calls[m].proc].decMode, calls[m].bytesContent)
       IN  IF d.ok
           THEN /\ calls' = [calls EXCEPT ![m].pc = "convertToStringKeyMap", ![m].value = d.v]
                /\ UNCHANGED <<msgs, rets>>
           ELSE ReturnError(m, "failed to decode CBOR")
    /\ UNCHANGED <<procs, data, runs>>

\* to_json: stringKeyData := convertToStringKeyMap(decoded)
ToJSONConvert(m) ==
    /\ calls[m].pc = "convertToStringKeyMap"
    /\ \E stringKeyData \in convertToStringKeyMap(calls[m].value) :
           calls' = [calls EXCEPT ![m].pc = "Marshal", ![m].value = stringKeyData]
    /\ UNCHANGED <<procs, msgs, rets, data, runs>>

\* ToJSONMarshal that stores the text in the message before looking at the error
ToJSONMarshalEager(m) ==
    /\ calls[m].pc = "Marshal"
    /\ LET j == jsonMarshal(calls[m].value)
       IN  IF j.ok
           THEN /\ calls' = [calls EXCEPT ![m].pc = "SetBytes", ![m].out = j.out]
                /\ UNCHANGED <<msgs, rets>>
           ELSE /\ calls' = [calls EXCEPT ![m] = IdleCall]
                /\ msgs' = [msgs EXCEPT ![m].payload = j.out]
                /\ rets' = [rets EXCEPT ![m].ops = Append(@, procs[calls[m].proc].operator),
                                        ![m].errs = Append(@, "failed to convert CBOR to JSON"),
                                        ![m].batch = <<>>,
                                        ![m].after = j.out]
    /\ UNCHANGED <<procs, data, runs>>

\* to_json: jsonData, err := json.Marshal(stringKeyData)
ToJSONMarshal(m) ==
    /\ calls[m].pc = "Marshal"
    /\ LET j == jsonMarshal(calls[m].value)
       IN  IF j.ok
           THEN /\ calls' = [calls EXCEPT ![m].pc = "SetBytes", ![m].out = j.out]
                /\ UNCHANGED <<msgs, rets>>
           ELSE ReturnError(m, "failed to convert CBOR to JSON")
    /\ UNCHANGED <<procs, data, runs>>

\* from_json: json.Unmarshal(bytesContent, &jsonData)
FromJSONUnmarshal(m) ==
    /\ calls[m].pc = "Unmarshal"
    /\ LET j == jsonUnmarshal(calls[m].bytesContent)
       IN  IF j.ok
           THEN /\ calls' = [calls EXCEPT ![m].pc = "cborMarshal", ![m].value = j.v]
                /\ UNCHANGED <<msgs, rets>>
           ELSE ReturnError(m, "failed to parse JSON")
    /\ UNCHANGED <<procs, data, runs>>

\* from_json: cborData, err := cp.encMode.Marshal(jsonData); no value that
\* json.Unmarshal produces makes the encoder fail
FromJSONMarshal(m) ==
    /\ calls[m].pc = "cborMarshal"
    /\ \E cborData \in cborMarshal(procs[calls[m].proc].encMode, calls[m].value) :
           calls' = [calls EXCEPT ![m].pc = "SetBytes", ![m].out = cborData]
    /\ UNCHANGED <<procs, msgs, rets, data, runs>>

\* SetBytes that writes into every message the host holds
SetBytesShared(m) ==
    /\ calls[m].pc = "SetBytes"
    /\ msgs' = [x \in DOMAIN msgs |-> [msgs[x] EXCEPT !.payload = calls[m].out]]
    /\ calls' = [calls EXCEPT ![m] = IdleCall]
    /\ rets' = [rets EXCEPT ![m].ops = Append(@, procs[calls[m].proc].operator),
                            ![m].errs = Append(@, "nil"),
                            ![m].batch = <<m>>,
                            ![m].after = calls[m].out]
    /\ UNCHANGED <<procs, data, runs>>

\* SetBytes that returns an empty batch
SetBytesNoBatch(m) ==
    /\ calls[m].pc = "SetBytes"
    /\ msgs' = [msgs EXCEPT ![m].payload = calls[m].out]
    /\ calls' = [calls EXCEPT ![m] = IdleCall]
    /\ rets' = [rets EXCEPT ![m].ops = Append(@, procs[calls[m].proc].operator),
                            ![m].errs = Append(@, "nil"),
                            ![m].batch = <<>>,
                            ![m].after = calls[m].out]
    /\ UNCHANGED <<procs, data, runs>>

\* both operators: msg.SetBytes(...), return nil; Process returns ([]*service.Message{m}, nil)
SetBytes(m) ==
    /\ calls[m].pc = "SetBytes"
    /\ msgs' = [msgs EXCEPT ![m].payload = calls[m].out]
    /\ calls' = [calls EXCEPT ![m] = IdleCall]
    /\ rets' = [rets EXCEPT ![m].ops = Append(@, procs[calls[m].proc].operator),
                            ![m].errs = Append(@, "nil"),
                            ![m].batch = <<m>>,
                            ![m].after = calls[m].out]
    /\ UNCHANGED <<procs, data, runs>>

Next ==
    \/ \E p \in DOMAIN procs, operatorStr \in OperatorStrs : NewProcessor(p, operatorStr)
    \/ \E p \in DOMAIN procs : Close(p)
    \/ \E m \in DOMAIN msgs, p \in DOMAIN procs : Process(m, p)
    \/ \E m \in DOMAIN msgs : ToJSONDecode(m)
    \/ \E m \in DOMAIN msgs : ToJSONConvert(m)
    \/ \E m \in DOMAIN msgs : ToJSONMarshal(m)
    \/ \E m \in DOMAIN msgs : FromJSONUnmarshal(m)
    \/ \E m \in DOMAIN msgs : FromJSONMarshal(m)
    \/ \E m \in DOMAIN msgs : SetBytes(m)

----------------------------------------------------------------------------
(* The payloads the host delivers.                                         *)

\* the map with these two entries
Map2(k1, v1, k2, v2) == [k \in {k1, k2} |-> IF k = k1 THEN v1 ELSE v2]
Map1(k1, v1) == [k \in {k1} |-> v1]

\* JSON documents, as values
JSONDocs ==
    {Nil, Bool(TRUE), Float64(12), Float64(0 - 3), String(<<97>>),
     Slice(<<Float64(1), String(<<97>>)>>),
     MapString(Map2(<<97>>, Float64(1), <<98>>, Slice(<<Nil, Bool(FALSE)>>))),
     MapString(Map2(<<109>>, String(<<72, 105>>),
                    <<120>>, MapString(Map2(<<98>>, Bool(TRUE), <<122>>, Nil))))}

\* their texts as json.Marshal writes them, and one text with white space: ` [ 1 , 2 ] `
JSONTexts ==
    {jsonMarshal(v).out : v \in JSONDocs} \cup {<<32, 91, 32, 49, 32, 44, 32, 50, 32, 93, 32>>}

\* texts that are no JSON document: `{`, `[1,]`, `1 x`, the empty text, `"a`
MalformedJSON == {<<123>>, <<91, 49, 44, 93>>, <<49, 32, 120>>, <<>>, <<34, 97>>}

\* CBOR documents, as values: maps with integer keys, with keys that share a
\* text form, inside a sequence, and a NaN, which JSON cannot hold
CBORDocs ==
    {Uint64(1),
     MapAny(Map2(Uint64(1), String(<<97>>), String(<<49>>), String(<<98>>))),
     MapAny(Map1(Int64(0 - 2), Slice(<<NaN>>))),
     Slice(<<Uint64(24), MapAny(Map1(Uint64(2), Nil))>>),
     MapAny(Map2(String(<<107>>), MapAny(Map1(Uint64(1), Bool(TRUE))), Uint64(3), Float64(5)))}

CBORItems == UNION {cborMarshal(PreferredUnsortedEncMode, v) : v \in CBORDocs}

\* byte strings that are no CBOR data item: an array of 2 holding 1 element,
\* the integer 1 followed by a stray break byte, a break byte, a text of 2 holding 1 byte
MalformedCBOR == {<<130, 1>>, <<1, 255>>, <<255>>, <<98, 97>>}

Payloads == JSONTexts \cup MalformedJSON \cup CBORItems \cup MalformedCBOR

\* the payloads of the second message of the concurrent specification
FewPayloads ==
    {jsonMarshal(MapString(Map2(<<97>>, Float64(1), <<98>>, Slice(<<Nil, Bool(FALSE)>>)))).out,
     <<1, 255>>, <<91, 49, 44, 93>>}
    \cup cborMarshal(PreferredUnsortedEncMode,
                     MapAny(Map2(Uint64(1), String(<<97>>), String(<<49>>), String(<<98>>))))

\* the JSON text `text` inside n single-element arrays
WrapText(n, text) ==
    [j \in 1..2 * n + Len(text) |->
        IF j <= n THEN 91 ELSE IF j > n + Len(text) THEN 93 ELSE text[j - n]]

\* the number 1 inside MaxWrap arrays
DeepTexts == {WrapText(MaxWrap, <<49>>)}

----------------------------------------------------------------------------
(* Specifications.                                                         *)

\* one processor, two messages processed concurrently through it
Init ==
    /\ procs = [p \in {"cbor"} |-> NoProcessor]
    /\ \E pa \in Payloads, pb \in FewPayloads :
           /\ msgs = [m \in {"a", "b"} |-> [payload |-> IF m = "a" THEN pa ELSE pb]]
           /\ rets = [m \in {"a", "b"} |-> NoReturn(IF m = "a" THEN pa ELSE pb)]
    /\ calls = [m \in {"a", "b"} |-> IdleCall]
    /\ data = Nil
    /\ runs = EmptyMap

Spec == Init /\ [][Next]_vars

\* a pipeline of two processors, one message passed through them in any order
InitPipeline ==
    /\ procs = [p \in {"first", "second"} |-> NoProcessor]
    /\ \E pa \in Payloads \cup DeepTexts :
           /\ msgs = [m \in {"a"} |-> [payload |-> pa]]
           /\ rets = [m \in {"a"} |-> NoReturn(pa)]
    /\ calls = [m \in {"a"} |-> IdleCall]
    /\ data = Nil
    /\ runs = EmptyMap

SpecPipeline == InitPipeline /\ [][Next]_vars

\* every payload a call meets lies in the part of the two formats the model covers
Modelled ==
    \A m \in DOMAIN msgs :
        /\ calls[m].pc = "Decode" =>
               Decode(procs[calls[m].proc].decMode, calls[m].bytesContent).v # Unmodelled
        /\ calls[m].pc = "Unmarshal" => jsonUnmarshal(calls[m].bytesContent).v # Unmodelled
        /\ calls[m].pc = "cborMarshal" =>
               cborMarshal(procs[calls[m].proc].encMode, calls[m].value) # {}

----------------------------------------------------------------------------
(* Properties of convertToStringKeyMap, stated on the helper specification. *)

\* the entries of a map node of either Go type, and the text form of one of its keys
IsMap(x) == x.t \in {"map[any]any", "map[string]any"}
Entries(x) == IF x.t = "map[any]any" THEN x.m ELSE x.sm
KeyText(x, k) == IF x.t = "map[any]any" THEN Sprintf(k) ELSE k
IsText(k) == k \in Seq(0..255)

\* out is a normalisation of in: a scalar as it is, a sequence element by
\* element, a map with each entry under the text form of one of the keys having it
RECURSIVE IsNormalForm(_, _)
IsNormalForm(in, out) ==
    CASE IsMap(in) ->
             /\ out.t = "map[string]any"
             /\ DOMAIN out.sm = {KeyText(in, k) : k \in DOMAIN Entries(in)}
             /\ \A ks \in DOMAIN out.sm :
                    \E k \in DOMAIN Entries(in) :
                        KeyText(in, k) = ks /\ IsNormalForm(Entries(in)[k], out.sm[ks])
      [] in.t = "[]any" ->
             /\ out.t = "[]any"
             /\ Len(out.a) = Len(in.a)
             /\ \A i \in 1..Len(in.a) : IsNormalForm(in.a[i], out.a[i])
      [] OTHER -> out = in

\* no map of the tree has a key that is not a text string
RECURSIVE OnlyStringKeys(_)
OnlyStringKeys(v) ==
    CASE v.t = "map[any]any" -> FALSE
      [] v.t = "map[string]any" ->
             \A k \in DOMAIN v.sm : IsText(k) /\ OnlyStringKeys(v.sm[k])
      [] v.t = "[]any" -> \A i \in 1..Len(v.a) : OnlyStringKeys(v.a[i])
      [] OTHER -> TRUE

\* C2: the tree convertToStringKeyMap returns holds no map with a key that is
\* not a text string, at any depth, inside sequences and inside maps
C2_KeyNormalizationTotality == \A r \in Runs : runs[r].done => OnlyStringKeys(runs[r].ret)

\* C2 witness: a run has returned on a sequence holding a map with a key that is no string
C2_Witness ==
    /\ runs["first"].done
    /\ data.t = "[]any"
    /\ \E i \in 1..Len(data.a) :
           data.a[i].t = "map[any]any" /\ \E k \in DOMAIN data.a[i].m : k.t # "string"

\* every sequence node of in, at any depth, has in out a sequence of the same
\* length whose i-th element is a normalisation of the i-th element
RECURSIVE SequencesKept(_, _)
SequencesKept(in, out) ==
    CASE in.t = "[]any" ->
             /\ out.t = "[]any"
             /\ Len(out.a) = Len(in.a)
             /\ \A i \in 1..Len(in.a) :
                    IsNormalForm(in.a[i], out.a[i]) /\ SequencesKept(in.a[i], out.a[i])
      [] IsMap(in) ->
             /\ out.t = "map[string]any"
             /\ \A ks \in DOMAIN out.sm :
                    \E k \in DOMAIN Entries(in) :
                        KeyText(in, k) = ks /\ SequencesKept(Entries(in)[k], out.sm[ks])
      [] OTHER -> TRUE

\* C6: for every sequence node at any depth of the input tree,
\* convertToStringKeyMap returns a sequence of the same length whose i-th
\* element is the normalisation of the input's i-th element
C6_OrderPreservation == \A r \in Runs : runs[r].done => SequencesKept(data, runs[r].ret)

\* C6 witness: a run has returned on a map holding a sequence of two different elements
C6_Witness ==
    /\ runs["first"].done
    /\ IsMap(data)
    /\ \E k \in DOMAIN Entries(data) :
           /\ Entries(data)[k].t = "[]any"
           /\ Len(Entries(data)[k].a) >= 2
           /\ Entries(data)[k].a[1] # Entries(data)[k].a[2]

\* no two keys of the map node share a text form
DistinctTexts(x) ==
    \A k1, k2 \in DOMAIN Entries(x) : KeyText(x, k1) = KeyText(x, k2) => k1 = k2

\* every map node of in, at any depth, whose keys have distinct text forms has
\* in out a map with one entry for each of its entries: under the text form of
\* the key, a normalisation of the value
RECURSIVE MapsKept(_, _)
MapsKept(in, out) ==
    CASE IsMap(in) ->
             /\ out.t = "map[string]any"
             /\ DistinctTexts(in) =>
                    /\ Cardinality(DOMAIN out.sm) = Cardinality(DOMAIN Entries(in))
                    /\ \A k \in DOMAIN Entries(in) :
                           /\ KeyText(in, k) \in DOMAIN out.sm
                           /\ IsNormalForm(Entries(in)[k], out.sm[KeyText(in, k)])
             /\ \A ks \in DOMAIN out.sm :
                    \E k \in DOMAIN Entries(in) :
                        KeyText(in, k) = ks /\ MapsKept(Entries(in)[k], out.sm[ks])
      [] in.t = "[]any" ->
             /\ out.t = "[]any"
             /\ Len(out.a) = Len(in.a)
             /\ \A i \in 1..Len(in.a) : MapsKept(in.a[i], out.a[i])
      [] OTHER -> TRUE

\* C9: for a map node whose keys have pairwise distinct text forms,
\* convertToStringKeyMap returns a map with exactly one entry for each input
\* entry: its key the text form of the input key, its value the normalisation
\* of the input value
C9_NoInformationDropped == \A r \in Runs : runs[r].done => MapsKept(data, runs[r].ret)

\* C9 witness: a run has returned on a map of two keys with different text
\* forms, one of them no string, one of the values a map itself
C9_Witness ==
    /\ runs["first"].done
    /\ data.t = "map[any]any"
    /\ Cardinality(DOMAIN data.m) = 2
    /\ DistinctTexts(data)
    /\ \E k \in DOMAIN data.m : k.t # "string" /\ IsMap(data.m[k])

\* C5: two runs of convertToStringKeyMap on the same input map return the same
\* output map, also when two keys of a map share a text form
C5_DeterministicCollision ==
    (runs["first"].done /\ runs["second"].done) => runs["first"].ret = runs["second"].ret

----------------------------------------------------------------------------
(* Properties of the processor.                                            *)

Last(s) == s[Len(s)]

\* message m is in no Process call and one call on it at least has returned
Returned(m) == calls[m].pc = "idle" /\ Len(rets[m].ops) > 0

\* what a Process call with this operator returns on payload `in` when no
\* other call runs: the errors and payloads it can end with
RunAlone(operator, in) ==
    IF operator = "to_json"
    THEN LET d == Decode(MapKeyByteStringDecMode, in)
         IN  IF ~d.ok THEN {[err |-> "failed to decode CBOR", payload |-> in]}
             ELSE {IF jsonMarshal(c).ok THEN [err |-> "nil", payload |-> jsonMarshal(c).out]
                   ELSE [err |-> "failed to convert CBOR to JSON", payload |-> in] :
                       c \in convertToStringKeyMap(d.v)}
    ELSE LET j == jsonUnmarshal(in)
         IN  IF ~j.ok THEN {[err |-> "failed to parse JSON", payload |-> in]}
             ELSE {[err |-> "nil", payload |-> b] : b \in cborMarshal(PreferredUnsortedEncMode, j.v)}

\* the end of the well-formed data item (RFC 8949) whose head is at i, 0 when there is none
RECURSIVE ItemEnd(_, _), ItemsEnd(_, _, _), ChunksEnd(_, _, _), UntilBreak(_, _, _, _)
\* n data items one after another
ItemsEnd(s, i, n) ==
    IF n = 0 \/ i = 0 THEN i ELSE ItemsEnd(s, ItemEnd(s, i), n - 1)
\* definite-length strings of this major type up to a break byte
ChunksEnd(s, i, major) ==
    IF i = 0 \/ i > Len(s) THEN 0
    ELSE IF s[i] = 255 THEN i + 1
    ELSE IF s[i] \div 32 # major \/ s[i] % 32 = 31 THEN 0
    ELSE ChunksEnd(s, ItemEnd(s, i), major)
\* data items up to a break byte; in a map (pairs) the break comes after a value only
UntilBreak(s, i, pairs, afterValue) ==
    IF i = 0 \/ i > Len(s) THEN 0
    ELSE IF s[i] = 255 THEN (IF pairs /\ ~afterValue THEN 0 ELSE i + 1)
    ELSE UntilBreak(s, ItemEnd(s, i), pairs, ~afterValue)
ItemEnd(s, i) ==
    IF i = 0 \/ i > Len(s) THEN 0
    ELSE LET major == s[i] \div 32
             ai == s[i] % 32
             h == ReadArg(s, i)
         IN  CASE ai \in 28..30 -> 0
               [] ai = 31 /\ major \in {2, 3} -> ChunksEnd(s, i + 1, major)
               [] ai = 31 /\ major \in {4, 5} -> UntilBreak(s, i + 1, major = 5, TRUE)
               [] ai = 31 -> 0
               [] ~h.ok -> 0
               [] major \in {0, 1} -> h.i
               [] major \in {2, 3} -> IF h.i + h.n - 1 > Len(s) THEN 0 ELSE h.i + h.n
               [] major = 4 -> ItemsEnd(s, h.i, Min(h.n, Len(s) + 1))
               [] major = 5 -> ItemsEnd(s, h.i, Min(2 * h.n, Len(s) + 1))
               [] major = 6 -> ItemEnd(s, h.i)
               [] OTHER -> IF ai = 24 /\ h.n < 32 THEN 0 ELSE h.i

\* the payload is one well-formed CBOR data item and nothing else
WellFormedCBOR(s) == ItemEnd(s, 1) = Len(s) + 1

\* the payload is one JSON value and nothing else
WellFormedJSON(s) == jsonUnmarshal(s).ok

\* C3: a to_json processor given a payload that is not well-formed CBOR returns
\* a decode error, a from_json processor given a payload that is not
\* well-formed JSON returns a parse error, and neither returns a batch
C3_InvalidInputRejected ==
    \A m \in DOMAIN msgs :
        Returned(m) =>
            /\ (Last(rets[m].ops) = "to_json" /\ ~WellFormedCBOR(rets[m].before)) =>
                   (Last(rets[m].errs) = "failed to decode CBOR" /\ rets[m].batch = <<>>)
            /\ (Last(rets[m].ops) = "from_json" /\ ~WellFormedJSON(rets[m].before)) =>
                   (Last(rets[m].errs) = "failed to parse JSON" /\ rets[m].batch = <<>>)

\* C4: NewProcessor with an operator string other than "to_json" and
\* "from_json" returns an error and no processor, and no message is ever
\* processed by it; with one of the two it returns a processor whose
\* operator is that conversion
C4_ConfigurationRejection ==
    /\ \A p \in DOMAIN procs :
           procs[p].state # "unbuilt" =>
               IF procs[p].arg \in {"to_json", "from_json"}
               THEN procs[p].state = "built" /\ procs[p].err = "nil"
                    /\ procs[p].operator = procs[p].arg
               ELSE procs[p].state = "failed" /\ procs[p].err = "invalid operator type"
                    /\ procs[p].operator = "nil"
    /\ \A m \in DOMAIN msgs :
           /\ calls[m].pc # "idle" =>
                  procs[calls[m].proc].arg \in {"to_json", "from_json"}
           /\ \A i \in 1..Len(rets[m].ops) : rets[m].ops[i] \in {"to_json", "from_json"}

\* C4 witness: NewProcessor was called with "yaml" and has returned its error
C4_Witness == \E p \in DOMAIN procs : procs[p].arg = "yaml" /\ procs[p].state = "failed"

\* a step leaves every processor NewProcessor has returned as it is
ConfigFrozen == \A p \in DOMAIN procs : procs[p].state = "built" => procs'[p] = procs[p]

\* what the last call on a message returned is what the call returns when run
\* alone, and the message holds what that call left in it
ResultsAsAlone ==
    \A m \in DOMAIN msgs :
        Returned(m) =>
            /\ [err |-> Last(rets[m].errs), payload |-> rets[m].after]
                   \in RunAlone(Last(rets[m].ops), rets[m].before)
            /\ msgs[m].payload = rets[m].after

\* C7: no Process or Close call changes the encode mode, decode mode or
\* operator of a processor NewProcessor has returned, and in every
\* interleaving of Process calls on different messages through one processor
\* each call's result is a result the call gives when run alone
C7_SafeConcurrentUse == []ResultsAsAlone /\ [][ConfigFrozen]_vars

\* C7 witness: a call on one message has returned while a call on the other
\* was running, and two calls are running now
C7_Witness ==
    /\ Len(rets["b"].ops) = 1
    /\ calls["b"].pc \notin {"idle", "Decode", "Unmarshal"}
    /\ calls["a"].pc = "SetBytes"
    /\ rets["a"].before # rets["b"].before

\* C8: Process returns either an error and no batch, or no error and a batch
\* of exactly one message: the input message, holding the converted payload
C8_TwoOutcomes ==
    \A m \in DOMAIN msgs :
        Returned(m) =>
            \/ Last(rets[m].errs) # "nil" /\ rets[m].batch = <<>>
            \/ /\ Last(rets[m].errs) = "nil"
               /\ rets[m].batch = <<m>>
               /\ [err |-> "nil", payload |-> msgs[m].payload]
                      \in RunAlone(Last(rets[m].ops), rets[m].before)

\* C8 witness: one call has returned a batch and another an error
C8_Witness ==
    /\ Returned("a") /\ Last(rets["a"].errs) = "nil" /\ rets["a"].batch = <<"a">>
    /\ Returned("b") /\ Last(rets["b"].errs) # "nil"

\* C10: when Process returns an error the payload of the message is what it
\* was before the call, and during a call the payload is not replaced before
\* every step that can fail has succeeded
C10_PayloadUnchangedOnFailure ==
    \A m \in DOMAIN msgs :
        /\ (Returned(m) /\ Last(rets[m].errs) # "nil") => msgs[m].payload = rets[m].before
        /\ calls[m].pc # "idle" => msgs[m].payload = rets[m].before

\* C10 witness: a call has failed at the last step that can fail,
\* json.Marshal, and another at the first, decoder.Decode
C10_Witness ==
    /\ Returned("a") /\ Last(rets["a"].errs) = "failed to convert CBOR to JSON"
    /\ Returned("b") /\ Last(rets["b"].errs) = "failed to decode CBOR"

\* C1: from_json on a JSON document and then to_json on the result yields a
\* JSON document deeply equal to the first, whatever the depth of its nesting
C1_RoundTripIdentity ==
    \A m \in DOMAIN msgs :
        (Returned(m) /\ rets[m].ops = <<"from_json", "to_json">> /\ rets[m].errs[1] = "nil") =>
            /\ rets[m].errs[2] = "nil"
            /\ jsonUnmarshal(msgs[m].payload).ok
            /\ jsonUnmarshal(msgs[m].payload).v = jsonUnmarshal(rets[m].orig).v

====
